---------------------------- MODULE Spec2Model ----------------------------
(***************************************************************************)
(* A model of friendlist_remover.py: the device-code polling loop, the     *)
(* batched display-name resolution, the interactive selector, the bulk     *)
(* removal loop and the orchestrator FriendsRemover.run that composes      *)
(* them.                                                                   *)
(*                                                                         *)
(* Strings that the code takes apart or compares (account ids, display     *)
(* names) are sequences of code points.  Time is counted in whole seconds. *)
(* The "mutual" and "created" fields of a friend are only displayed and    *)
(* are left out.                                                           *)
(***************************************************************************)
EXTENDS Integers, Sequences, FiniteSets, TLC

VARIABLES
    pc,               \* position in run() / in the function under study
    result,           \* how run() ended: "running", "returned", "raised"
    branch,           \* history: the branch by which run() reached teardown
    now,              \* time.time(), in seconds
    start,            \* exchange_device_code_for_user_token: start
    max_wait_seconds, \* exchange_device_code_for_user_token: max_wait_seconds
    resp,             \* exchange_device_code_for_user_token: resp (status, error)
    poll_result,      \* "none", "authorized", "http_error", "exception"
    slept,            \* history: the loop slept since the previous token request
    unslept_repoll,   \* history: a token request followed another with no sleep
    only_pending,     \* history: every answer so far was a transient rejection
    user_bearer,      \* self.user_bearer is set (a user session exists)
    kill_count,       \* history: number of calls of kill_session
    friends,          \* run: friends (the raw accountId of each record)
    account_ids,      \* resolve_display_names: account_ids
    batch_no,         \* resolve_display_names: batches requested so far
    out,              \* resolve_display_names: out
    requested,        \* history: the batches requested, in order
    answered_ids,     \* history: the non-empty ids of the items of all answers
    rows,             \* run / select: rows
    viewport_size,    \* select: viewport_size
    cursor_index,     \* select: cursor_index
    selected_ids,     \* select: selected_ids (a set)
    toggled_odd,      \* history: the ids toggled an odd number of times
    viewport,         \* _render_table: start and end of the last rendering
    selected,         \* run: selected_ids (the list that select returned)
    confirmed,        \* run: confirm
    item_i,           \* run: number of items the for loop has taken
    progress,         \* run: completed count of the progress task
    successes,        \* run: successes
    failures,         \* run: failures
    answers,          \* history: the remote's answer to each remove request
    removed           \* history: the ids remove_friend was called with

ctlVars == <<pc, result, branch>>

pollVars == <<now, start, max_wait_seconds, resp, poll_result, slept,
              unslept_repoll, only_pending>>

sessVars == <<user_bearer, kill_count>>

resolveVars == <<friends, account_ids, batch_no, out, requested, answered_ids>>

selectVars == <<rows, viewport_size, cursor_index, selected_ids, toggled_odd,
               viewport, selected>>

removeVars == <<confirmed, item_i, progress, successes, failures, answers, removed>>

vars == <<ctlVars, pollVars, sessVars, resolveVars, selectVars, removeVars>>

-----------------------------------------------------------------------------
(* Bounds of the model *)

\* A token request takes 0..MaxReqDur seconds.
MaxReqDur == 1

\* exchange_device_code_for_user_token alone is called with a ceiling in
\* 0..MaxWaitSmall, or with the default.
MaxWaitSmall == 5

-----------------------------------------------------------------------------
(* Program constants *)

DEFAULT_MAX_WAIT == 180

POLL_INTERVAL == 2

\* The clock of the model stops advancing here, far enough past every ceiling.
ClockCap == DEFAULT_MAX_WAIT + 3 * (POLL_INTERVAL + MaxReqDur + 1)

-----------------------------------------------------------------------------
(* Strings as sequences of code points *)

COLON == 58

\* "<unknown>"
UNKNOWN == <<60, 117, 110, 107, 110, 111, 119, 110, 62>>

Min(a, b) == IF a <= b THEN a ELSE b

Max(a, b) == IF a >= b THEN a ELSE b

\* str.lower() on ASCII text
Lower(s) == [i \in 1..Len(s) |-> IF s[i] \in 65..90 THEN s[i] + 32 ELSE s[i]]

\* s < t as Python compares strings: code point by code point, a proper
\* prefix first
StrLess(s, t) ==
    \E k \in 1..(Min(Len(s), Len(t)) + 1) :
        /\ \A j \in 1..(k - 1) : s[j] = t[j]
        /\ \/ k > Len(s) /\ k <= Len(t)
           \/ k <= Len(s) /\ k <= Len(t) /\ s[k] < t[k]

\* x or y on strings: the first one that is not empty
Or(x, y) == IF x # <<>> THEN x ELSE y

\* _normalize_account_id: the text after the first ':' when there is one
_normalize_account_id(raw) ==
    IF \E i \in 1..Len(raw) : raw[i] = COLON
      THEN LET first == CHOOSE i \in 1..Len(raw) :
                            /\ raw[i] = COLON
                            /\ \A j \in 1..(i - 1) : raw[j] # COLON
           IN  SubSeq(raw, first + 1, Len(raw))
      ELSE raw

\* _chunked: the slices seq[i : i + n] for i = 0, n, 2n, ... below len(seq)
_chunked(seq, n) ==
    [k \in 1..((Len(seq) + n - 1) \div n) |->
        SubSeq(seq, (k - 1) * n + 1, Min(k * n, Len(seq)))]

-----------------------------------------------------------------------------
(* requests.Response.raise_for_status: raises HTTPError for 4xx and 5xx only *)

RaisesForStatus(status) == status >= 400 /\ status < 600

(* Device-code polling *)

TRANSIENT_STATUS == {400, 401, 403}

TRANSIENT_ERRORS == {"authorization_pending", "invalid_grant", "slow_down"}

\* The answers of the token endpoint that the loop tells apart: a status and
\* the "error" field of the body ("" when the body has none or is not JSON).
TokenStatuses == {200, 204, 302, 400, 401, 403, 404, 500}

TokenErrors == TRANSIENT_ERRORS \cup {"access_denied", ""}

\* The "error" field is read for 400, 401 and 403 only (lines 174-179).
TokenAnswers ==
    [status : TRANSIENT_STATUS, error : TokenErrors]
        \cup [status : TokenStatuses \ TRANSIENT_STATUS, error : {""}]

NoResp == [status |-> 0, error |-> ""]

IsTransient(r) == r.status \in TRANSIENT_STATUS /\ r.error \in TRANSIENT_ERRORS

\* A retry condition that forgets the ceiling.
RetryAllowedNoCeiling(r, elapsed, ceiling) == IsTransient(r)

\* line 180: the retry condition
RetryAllowed(r, elapsed, ceiling) == IsTransient(r) /\ elapsed < ceiling

\* line 162: start = time.time()
PollBegin ==
    /\ pc = "poll_begin"
    /\ start' = now
    /\ pc' = "poll_request"
    /\ UNCHANGED <<result, branch, now, max_wait_seconds, resp, poll_result,
                   slept, unslept_repoll, only_pending>>
    /\ UNCHANGED <<sessVars, resolveVars, selectVars, removeVars>>

\* lines 164-169: one token request, answered after d seconds
PollRequest ==
    /\ pc = "poll_request"
    /\ \E a \in TokenAnswers, d \in 0..MaxReqDur :
          /\ now + d <= ClockCap
          /\ now' = now + d
          /\ resp' = a
          /\ only_pending' = (only_pending /\ IsTransient(a))
    /\ unslept_repoll' = (unslept_repoll \/ (resp # NoResp /\ ~slept))
    /\ slept' = FALSE
    /\ pc' = "poll_check"
    /\ UNCHANGED <<result, branch, start, max_wait_seconds, poll_result>>
    /\ UNCHANGED <<sessVars, resolveVars, selectVars, removeVars>>

\* lines 164-169: the request fails at transport level (ConnectionError,
\* Timeout), which is no HTTPError
PollTransportError ==
    /\ pc = "poll_request"
    /\ poll_result' = "exception"
    /\ pc' = "done"
    /\ result' = "raised"
    /\ UNCHANGED <<branch, now, start, max_wait_seconds, resp, slept,
                   unslept_repoll, only_pending>>
    /\ UNCHANGED <<sessVars, resolveVars, selectVars, removeVars>>

\* lines 170-184: what the loop does with the answer.  On a 200 the payload is
\* returned to run() (lines 287-297), which stores the bearer; start and resp
\* are locals that end with the call, and nothing later reads the clock, so
\* the model stops tracking them there.
\* The error of the handshake is ignored and run() goes on to the fetch.
HandshakeErrorIgnored == "get_friends"

\* run(), lines 288-290: except HTTPError: ... return
HandshakeErrorPc == "done"

\* lines 170-184, one answer looked at
PollCheck ==
    /\ pc = "poll_check"
    /\ IF resp.status = 200
         THEN /\ poll_result' = "authorized"
              /\ user_bearer' = TRUE
              /\ pc' = "get_friends"
              /\ now' = 0 /\ start' = 0 /\ resp' = NoResp
              /\ slept' = FALSE /\ unslept_repoll' = FALSE /\ only_pending' = TRUE
              /\ UNCHANGED result
         ELSE IF RetryAllowed(resp, now - start, max_wait_seconds)
         THEN /\ pc' = "poll_sleep"
              /\ UNCHANGED <<result, now, start, resp, poll_result, slept,
                             unslept_repoll, only_pending, user_bearer>>
         ELSE IF RaisesForStatus(resp.status)
         THEN \* run(), lines 288-290: except HTTPError: return
              /\ poll_result' = "http_error"
              /\ pc' = HandshakeErrorPc
              /\ result' = IF HandshakeErrorPc = "done" THEN "returned" ELSE result
              /\ UNCHANGED <<now, start, resp, slept, unslept_repoll,
                             only_pending, user_bearer>>
         ELSE \* raise_for_status returns: back to the top of the loop
              /\ pc' = "poll_request"
              /\ UNCHANGED <<result, now, start, resp, poll_result, slept,
                             unslept_repoll, only_pending, user_bearer>>
    /\ UNCHANGED <<branch, max_wait_seconds, kill_count>>
    /\ UNCHANGED <<resolveVars, selectVars, removeVars>>

\* line 181: time.sleep(2)
PollSleep ==
    /\ pc = "poll_sleep"
    /\ now' = (IF now + POLL_INTERVAL <= ClockCap THEN now + POLL_INTERVAL ELSE ClockCap)
    /\ slept' = TRUE
    /\ pc' = "poll_request"
    /\ UNCHANGED <<result, branch, start, max_wait_seconds, resp, poll_result,
                   unslept_repoll, only_pending>>
    /\ UNCHANGED <<sessVars, resolveVars, selectVars, removeVars>>

-----------------------------------------------------------------------------
(* Display-name resolution *)

BATCH_SIZE == 100

\* The remote account directory: the display name of a canonical id (the id
\* reversed, some letters in upper case, so that names and ids sort apart).
DirectoryName(cid) ==
    [i \in 1..Len(cid) |->
        LET c == cid[Len(cid) + 1 - i]
        IN  IF c \in 97..122 /\ c % 2 = 1 THEN c - 32 ELSE c]

\* One account object of an answer; <<>> stands for a key that is missing.
Item(id, accountId, displayName, display_name) ==
    [id |-> id, accountId |-> accountId,
     displayName |-> displayName, display_name |-> display_name]

\* The shapes of answer the account service gives to a batch.
ResponseModes ==
    {"all", "odd", "empty", "dict", "dict_account_id", "not_list", "bare"}

\* The JSON body answered in each mode to a request for ids: a list of account
\* objects, or one object: an account keyed by id ("dict"), an account keyed by
\* accountId alone ("dict_account_id"), or an object that is no account.
Answer(mode, ids) ==
    CASE mode = "all" ->
           [kind |-> "list",
            items |-> [i \in 1..Len(ids) |->
                          Item(ids[i], <<>>, DirectoryName(ids[i]), <<>>)]]
      [] mode = "odd" ->
           [kind |-> "list",
            items |-> [i \in 1..((Len(ids) + 1) \div 2) |->
                          Item(ids[2 * i - 1], <<>>, <<>>,
                               DirectoryName(ids[2 * i - 1]))]]
      [] mode = "empty" -> [kind |-> "list", items |-> <<>>]
      [] mode = "dict" ->
           [kind |-> "dict",
            items |-> <<Item(ids[1], <<>>, DirectoryName(ids[1]), <<>>)>>]
      [] mode = "dict_account_id" ->
           [kind |-> "dict",
            items |-> <<Item(<<>>, ids[1], DirectoryName(ids[1]), <<>>)>>]
      [] mode = "not_list" ->
           [kind |-> "dict", items |-> <<Item(<<>>, <<>>, <<>>, <<>>)>>]
      [] mode = "bare" ->
           [kind |-> "list",
            items |-> <<Item(<<>>, ids[1], <<>>, <<>>),
                        Item(<<>>, <<>>, DirectoryName(ids[1]), <<>>)>>]

\* The non-empty ids of the account objects of an answer.
IdsOf(data) ==
    {Or(data.items[i].id, data.items[i].accountId) : i \in 1..Len(data.items)}
        \ {<<>>}

EmptyMap == [k \in {} |-> <<>>]

\* out[k] = v
Put(o, k, v) == [x \in DOMAIN o \cup {k} |-> IF x = k THEN v ELSE o[x]]

\* dict.get(k, default)
Get(o, k, default) == IF k \in DOMAIN o THEN o[k] ELSE default

\* lines 213-214: one account object with a key "id" is taken as a list of
\* one; an object without it is left as it is and line 216 passes it by
AsList(data) ==
    IF data.kind = "dict" /\ data.items[1].id # <<>>
      THEN [kind |-> "list", items |-> data.items]
      ELSE data

\* line 218
AidOf(item) == Or(Or(item.id, item.accountId), <<>>)

\* line 219
DnameOf(item) == Or(Or(item.displayName, item.display_name), UNKNOWN)

\* lines 217-221: the loop over the items, each item with an id stored under
\* it; of two items with one id the later one stays
MergeItems(o, items) ==
    LET keys == {AidOf(items[i]) : i \in 1..Len(items)} \ {<<>>}
        last(k) == CHOOSE i \in 1..Len(items) :
                      /\ AidOf(items[i]) = k
                      /\ \A j \in (i + 1)..Len(items) : AidOf(items[j]) # k
    IN  [k \in DOMAIN o \cup keys |->
            IF k \in keys THEN DnameOf(items[last(k)]) ELSE o[k]]

\* lines 211-224
MergeAnswer(o, data) ==
    LET d == AsList(data)
    IN  IF d.kind = "list" THEN MergeItems(o, d.items) ELSE o

Batches == _chunked(account_ids, BATCH_SIZE)

\* lines 203-224: one batch requested and answered
ResolveBatch ==
    /\ pc = "resolve"
    /\ batch_no < Len(Batches)
    /\ LET batch == Batches[batch_no + 1]
           normalized == [i \in 1..Len(batch) |-> _normalize_account_id(batch[i])]
       IN  \E mode \in ResponseModes :
              LET data == Answer(mode, normalized)
              IN  /\ out' = MergeAnswer(out, data)
                  /\ answered_ids' = answered_ids \cup IdsOf(data)
                  /\ requested' = Append(requested, batch)
    /\ batch_no' = batch_no + 1
    /\ UNCHANGED <<ctlVars, pollVars, sessVars, friends, account_ids>>
    /\ UNCHANGED <<selectVars, removeVars>>

\* The failure of a batch is swallowed and the loop goes on.
BatchErrorSwallowed == "resolve"

\* lines 208-209: nothing catches the error of a batch, in
\* resolve_display_names or in run(): run() ends there
BatchErrorPc == "done"

\* lines 208-209: the request fails (transport error, or raise_for_status
\* raises) and the exception leaves resolve_display_names and run()
ResolveBatchFails ==
    /\ pc = "resolve"
    /\ batch_no < Len(Batches)
    /\ requested' = Append(requested, Batches[batch_no + 1])
    /\ batch_no' = batch_no + 1
    /\ pc' = BatchErrorPc
    /\ result' = IF BatchErrorPc = "done" THEN "raised" ELSE result
    /\ branch' = "resolve_failed"
    /\ UNCHANGED <<pollVars, sessVars, friends, account_ids, out,
                   answered_ids>>
    /\ UNCHANGED <<selectVars, removeVars>>

\* line 226: return out
ResolveReturn ==
    /\ pc = "resolve"
    /\ batch_no = Len(Batches)
    /\ pc' = "build_rows"
    /\ UNCHANGED <<result, branch, pollVars, sessVars, resolveVars>>
    /\ UNCHANGED <<selectVars, removeVars>>

-----------------------------------------------------------------------------
(* Rows of the selector *)

\* The rows carry the canonical ids, the namespace cut off.
MakeRowsCanonical(fs, display_map) ==
    [i \in 1..Len(fs) |->
        [accountId |-> _normalize_account_id(fs[i]),
         displayName |-> Get(display_map, fs[i], UNKNOWN)]]

\* lines 313-322: one row per friend, the name looked up under the raw id
MakeRows(fs, display_map) ==
    [i \in 1..Len(fs) |->
        [accountId |-> fs[i], displayName |-> Get(display_map, fs[i], UNKNOWN)]]

\* line 325: the sort key of a row
SortKey(r) == <<Lower(r.displayName), r.accountId>>

\* line 325: two sort keys compared as Python compares tuples
KeyLess(k, q) ==
    \/ StrLess(k[1], q[1])
    \/ k[1] = q[1] /\ StrLess(k[2], q[2])

\* line 325: the place of every row after list.sort, a stable sort, from the
\* keys of the rows: a row comes behind the rows with a smaller key and behind
\* the rows with an equal key that came before it
Ranks(key) ==
    [i \in 1..Len(key) |->
        Cardinality({j \in 1..Len(key) :
            /\ j # i
            /\ \/ KeyLess(key[j], key[i])
               \/ ~KeyLess(key[i], key[j]) /\ j < i}) + 1]

\* The rows rs, each one at the place rank gives it
Place(rs, rank) ==
    [k \in 1..Len(rs) |-> rs[CHOOSE i \in 1..Len(rs) : rank[i] = k]]

\* line 325: rows.sort(key=...)
SortRows(unsorted) ==
    CHOOSE s \in UNION {UNION {{Place(rs, rank) : rank \in {Ranks(key)}} :
                                  key \in {[i \in 1..Len(rs) |-> SortKey(rs[i])]}} :
                           rs \in {unsorted}} : TRUE

-----------------------------------------------------------------------------
(* EpicFriendsUI *)

VIEWPORT_SIZE == 14

\* The start follows the cursor with no clamp at the end of the list.
ViewStartNoUpperClamp(n, cursor, size) ==
    IF n <= size THEN 0 ELSE Max(0, cursor - (size \div 2))

\* line 67
ViewStart(n, cursor, size) ==
    IF n <= size THEN 0 ELSE Max(0, Min(cursor - (size \div 2), n - size))

\* line 68
ViewEnd(n, cursor, size) ==
    IF n <= size THEN n ELSE ViewStart(n, cursor, size) + size

\* _render_table: the rows start..end-1 are drawn
Render(rs, cursor, size) ==
    [start |-> ViewStart(Len(rs), cursor, size),
     end |-> ViewEnd(Len(rs), cursor, size)]

NoView == [start |-> 0, end |-> 0]

\* A sequence of as many members of the set, repeats allowed.
OrderingsWithRepeats(S) == [1..Cardinality(S) -> S]

\* line 118, list(selected_ids): the members of the set in some order
Orderings(S) ==
    {f \in [1..Cardinality(S) -> S] : \A i, j \in 1..Cardinality(S) : f[i] = f[j] => i = j}

\* lines 98-104: select() begins
SelectBegin ==
    /\ pc = "select_begin"
    /\ IF rows = <<>>
         THEN /\ selected' = <<>>
              /\ pc' = "after_select"
              /\ UNCHANGED <<cursor_index, selected_ids, toggled_odd, viewport>>
         ELSE /\ cursor_index' = 0
              /\ selected_ids' = {}
              /\ toggled_odd' = {}
              /\ viewport' = Render(rows, 0, viewport_size)
              /\ pc' = "select"
              /\ UNCHANGED selected
    /\ UNCHANGED <<result, branch, pollVars, sessVars, resolveVars, rows,
                   viewport_size, removeVars>>

\* The cursor stops at the first row.
MoveUpNoWrap(cursor, n) == Max(cursor - 1, 0)

\* line 108
MoveUp(cursor, n) == (cursor - 1) % n

\* line 110
MoveDown(cursor, n) == (cursor + 1) % n

\* lines 107-108 and 122
KeyUp ==
    /\ pc = "select"
    /\ cursor_index' = MoveUp(cursor_index, Len(rows))
    /\ viewport' = Render(rows, cursor_index', viewport_size)
    /\ UNCHANGED <<ctlVars, pollVars, sessVars, resolveVars, rows,
                   viewport_size, selected_ids, toggled_odd, selected,
                   removeVars>>

\* lines 109-110 and 122
KeyDown ==
    /\ pc = "select"
    /\ cursor_index' = MoveDown(cursor_index, Len(rows))
    /\ viewport' = Render(rows, cursor_index', viewport_size)
    /\ UNCHANGED <<ctlVars, pollVars, sessVars, resolveVars, rows,
                   viewport_size, selected_ids, toggled_odd, selected,
                   removeVars>>

\* The id under the cursor is added, never taken out.
ToggleAddOnly(ids, acc_id) == ids \cup {acc_id}

\* lines 112-116
Toggle(ids, acc_id) == IF acc_id \in ids THEN ids \ {acc_id} ELSE ids \cup {acc_id}

\* lines 111-116 and 122
KeyToggle ==
    /\ pc = "select"
    /\ selected_ids' = Toggle(selected_ids, rows[cursor_index + 1].accountId)
    /\ LET acc_id == rows[cursor_index + 1].accountId
       IN  toggled_odd' = (toggled_odd \ {acc_id}) \cup ({acc_id} \ toggled_odd)
    /\ viewport' = Render(rows, cursor_index, viewport_size)
    /\ UNCHANGED <<ctlVars, pollVars, sessVars, resolveVars, rows,
                   viewport_size, cursor_index, selected, removeVars>>

\* lines 117-118
KeyEnter ==
    /\ pc = "select"
    /\ \E order \in Orderings(selected_ids) : selected' = order
    /\ pc' = "after_select"
    /\ UNCHANGED <<result, branch, pollVars, sessVars, resolveVars, rows,
                   viewport_size, cursor_index, selected_ids, toggled_odd,
                   viewport, removeVars>>

\* lines 119-120: q, Q, Ctrl-D
KeyCancel ==
    /\ pc = "select"
    /\ selected' = <<>>
    /\ pc' = "after_select"
    /\ UNCHANGED <<result, branch, pollVars, sessVars, resolveVars, rows,
                   viewport_size, cursor_index, selected_ids, toggled_odd,
                   viewport, removeVars>>

\* line 106, Ctrl-C: readchar.readkey() raises KeyboardInterrupt for it and
\* never returns the key, so line 119 does not see it; nothing in select() or
\* in run() catches the exception, run() ends with it and kill_session is not
\* called
KeyInterrupt ==
    /\ pc = "select"
    /\ branch' = "interrupted"
    /\ pc' = "done"
    /\ result' = "raised"
    /\ UNCHANGED <<pollVars, sessVars, resolveVars, selectVars, removeVars>>

\* A key that is bound to nothing moves the cursor down.
KeyOtherMovesCursor ==
    /\ pc = "select"
    /\ cursor_index' = (cursor_index + 1) % Len(rows)
    /\ viewport' = Render(rows, cursor_index', viewport_size)
    /\ UNCHANGED <<ctlVars, pollVars, sessVars, resolveVars, rows,
                   viewport_size, selected_ids, toggled_odd, selected,
                   removeVars>>

\* line 122 alone: a key that is bound to nothing
KeyOther ==
    /\ pc = "select"
    /\ viewport' = Render(rows, cursor_index, viewport_size)
    /\ UNCHANGED <<ctlVars, pollVars, sessVars, resolveVars, rows,
                   viewport_size, cursor_index, selected_ids, toggled_odd,
                   selected, removeVars>>

-----------------------------------------------------------------------------
(* Removal *)

SUCCESS_STATUS == {200, 202, 204}

\* The answers of the friends service to a remove request that the code
\* tells apart; "transport" is a request that fails without an answer.
RemoveStatuses == {200, 202, 204, 304, 404}

RemoveAnswers ==
    [kind : {"status"}, status : RemoveStatuses]
        \cup {[kind |-> "transport", status |-> 0]}

\* str(status_code)
StatusText(status) ==
    CASE status = 200 -> "200"
      [] status = 202 -> "202"
      [] status = 204 -> "204"
      [] status = 304 -> "304"
      [] status = 404 -> "404"
      [] OTHER -> "HTTPError"

\* Every status but 200 raises.
RemoveFriendRaisesNon200(status) == status # 200

\* lines 239-240: whether remove_friend raises HTTPError on this status
RemoveFriendRaises(status) ==
    status \notin SUCCESS_STATUS /\ RaisesForStatus(status)

\* lines 358-365: which clause of the try statement takes the call
Outcome(answer) ==
    IF answer.kind = "transport"
      THEN "exception"
      ELSE IF RemoveFriendRaises(answer.status) THEN "http_error" ELSE "ok"

\* line 360
NextSuccesses(succ, fid, answer) ==
    IF Outcome(answer) = "ok" THEN Append(succ, fid) ELSE succ

\* Only an HTTPError is recorded.
NextFailuresHttpOnly(fail, fid, answer) ==
    IF Outcome(answer) = "http_error"
      THEN Append(fail, [id |-> fid, reason |-> StatusText(answer.status)])
      ELSE fail

\* lines 361-365
NextFailures(fail, fid, answer) ==
    CASE Outcome(answer) = "http_error" ->
           Append(fail, [id |-> fid, reason |-> StatusText(answer.status)])
      [] Outcome(answer) = "exception" ->
           Append(fail, [id |-> fid, reason |-> "ConnectionError()"])
      [] OTHER -> fail

\* The loop stops at the first item that fails.
LoopAdvanceStopsOnFailure(i, n, answer) ==
    IF Outcome(answer) = "ok" THEN i + 1 ELSE n

\* line 357: the for loop takes the next item whatever happened to this one
LoopAdvance(i, n, answer) == i + 1

\* lines 357-367: one item of the loop
RemoveOne ==
    /\ pc = "remove"
    /\ item_i < Len(selected)
    /\ LET fid == selected[item_i + 1]
       IN  \E answer \in RemoveAnswers :
              /\ removed' = Append(removed, fid)
              /\ answers' = Append(answers, answer)
              /\ successes' = NextSuccesses(successes, fid, answer)
              /\ failures' = NextFailures(failures, fid, answer)
              /\ item_i' = LoopAdvance(item_i, Len(selected), answer)
    /\ progress' = progress + 1
    /\ UNCHANGED <<ctlVars, pollVars, sessVars, resolveVars, selectVars,
                   confirmed>>

\* lines 369-376: the loop is over, the report is printed
RemoveDone ==
    /\ pc = "remove"
    /\ item_i >= Len(selected)
    /\ branch' = "removed"
    /\ pc' = "kill"
    /\ UNCHANGED <<result, pollVars, sessVars, resolveVars, selectVars,
                   removeVars>>

-----------------------------------------------------------------------------
(* FriendsRemover.run *)

\* The friends service answers with at most MaxFriends friends.
MaxFriends == 2

\* The raw account ids a friend record can carry: "b", "C", "n:a", "n:x:y".
RawIds == {<<98>>, <<67>>, <<110, 58, 97>>, <<110, 58, 120, 58, 121>>}

\* The friend lists: every sequence of distinct raw ids.
FriendLists ==
    UNION {{f \in [1..n -> RawIds] : \A i, j \in 1..n : f[i] = f[j] => i = j}
              : n \in 0..MaxFriends}

\* lines 277: the client token is obtained
TokenClientCredentials ==
    /\ pc = "client_token"
    /\ pc' = "device_code"
    /\ UNCHANGED <<result, branch, pollVars, sessVars, resolveVars,
                   selectVars, removeVars>>

\* lines 137-143: the request fails or is rejected; run() ends with the error
TokenClientCredentialsFails ==
    /\ pc = "client_token"
    /\ pc' = "done"
    /\ result' = "raised"
    /\ UNCHANGED <<branch, pollVars, sessVars, resolveVars, selectVars,
                   removeVars>>

\* lines 280-283: the device code is created, the link shown, Enter pressed
CreateDeviceCode ==
    /\ pc = "device_code"
    /\ pc' = "poll_begin"
    /\ UNCHANGED <<result, branch, pollVars, sessVars, resolveVars,
                   selectVars, removeVars>>

\* lines 149-154: the request fails or is rejected; run() ends with the error
CreateDeviceCodeFails ==
    /\ pc = "device_code"
    /\ pc' = "done"
    /\ result' = "raised"
    /\ UNCHANGED <<branch, pollVars, sessVars, resolveVars, selectVars,
                   removeVars>>

\* line 308
AccountIdsOf(fs) == SelectSeq(fs, LAMBDA a : a # <<>>)

\* lines 300-309: the friends are fetched; with none, teardown; otherwise
\* resolve_display_names is entered (lines 200-201)
GetFriendsSummary ==
    /\ pc = "get_friends"
    /\ \E fs \in FriendLists :
          /\ friends' = fs
          /\ IF fs = <<>>
               THEN /\ branch' = "no_friends"
                    /\ pc' = "kill"
                    /\ UNCHANGED <<account_ids, batch_no, out>>
               ELSE /\ account_ids' = AccountIdsOf(fs)
                    /\ batch_no' = 0
                    /\ out' = EmptyMap
                    /\ pc' = "resolve"
                    /\ UNCHANGED branch
    /\ UNCHANGED <<result, pollVars, sessVars, requested, answered_ids,
                   selectVars, removeVars>>

\* lines 190-195: the request fails or is rejected; run() ends with the error
GetFriendsSummaryFails ==
    /\ pc = "get_friends"
    /\ pc' = "done"
    /\ result' = "raised"
    /\ UNCHANGED <<branch, pollVars, sessVars, resolveVars, selectVars,
                   removeVars>>

\* lines 311-330: the rows are built and sorted, the selector is called
BuildRows ==
    /\ pc = "build_rows"
    /\ rows' = SortRows(MakeRows(friends, out))
    /\ viewport_size' = VIEWPORT_SIZE
    /\ pc' = "select_begin"
    /\ UNCHANGED <<result, branch, pollVars, sessVars, resolveVars,
                   cursor_index, selected_ids, toggled_odd, viewport, selected,
                   removeVars>>

\* lines 332-335
AfterSelect ==
    /\ pc = "after_select"
    /\ IF selected = <<>>
         THEN /\ branch' = "no_selection"
              /\ pc' = "kill"
         ELSE /\ pc' = "confirm"
              /\ UNCHANGED branch
    /\ UNCHANGED <<result, pollVars, sessVars, resolveVars, selectVars,
                   removeVars>>

\* line 339: whether the loop is entered on this answer to the prompt
Proceeds(confirm) == confirm

\* lines 338-346 and 356
ConfirmRemoval ==
    /\ pc = "confirm"
    /\ \E confirm \in BOOLEAN :
          /\ confirmed' = confirm
          /\ IF Proceeds(confirm)
               THEN /\ pc' = "remove"
                    /\ successes' = <<>>
                    /\ failures' = <<>>
                    /\ item_i' = 0
                    /\ progress' = 0
                    /\ UNCHANGED branch
               ELSE /\ branch' = "declined"
                    /\ pc' = "kill"
                    /\ UNCHANGED <<successes, failures, item_i, progress>>
    /\ UNCHANGED <<result, pollVars, sessVars, resolveVars, selectVars,
                   answers, removed>>

\* The answers to the session-kill request: accepted, rejected with an error
\* status, or no answer at all (connection error, timeout).
KillAnswers == {"ok", "http_error", "transport"}

\* lines 260-268: raise_for_status is inside the try statement, the request
\* itself is not
KillSessionRaises(answer) == answer = "transport"

\* lines 255-268, and the end of run()
KillSession ==
    /\ pc = "kill"
    /\ kill_count' = kill_count + 1
    /\ \E answer \in KillAnswers :
          result' = IF KillSessionRaises(answer) THEN "raised" ELSE "returned"
    /\ pc' = "done"
    /\ UNCHANGED <<branch, pollVars, user_bearer, resolveVars, selectVars,
                   removeVars>>

-----------------------------------------------------------------------------
(* The specifications *)

\* What every specification starts from.
InitRest ==
    /\ result = "running"
    /\ branch = "none"
    /\ now = 0
    /\ start = 0
    /\ resp = NoResp
    /\ slept = FALSE
    /\ unslept_repoll = FALSE
    /\ only_pending = TRUE
    /\ kill_count = 0
    /\ batch_no = 0
    /\ out = EmptyMap
    /\ requested = <<>>
    /\ answered_ids = {}
    /\ cursor_index = 0
    /\ selected_ids = {}
    /\ toggled_odd = {}
    /\ viewport = NoView
    /\ selected = <<>>
    /\ confirmed = FALSE
    /\ item_i = 0
    /\ progress = 0
    /\ successes = <<>>
    /\ failures = <<>>
    /\ answers = <<>>
    /\ removed = <<>>

InitCommon ==
    /\ InitRest
    /\ poll_result = "none"
    /\ user_bearer = FALSE
    /\ friends = <<>>
    /\ rows = <<>>
    /\ viewport_size = VIEWPORT_SIZE

\* FriendsRemover().run()
Init ==
    /\ InitCommon
    /\ pc = "client_token"
    /\ max_wait_seconds = DEFAULT_MAX_WAIT
    /\ account_ids = <<>>

Next ==
    \/ TokenClientCredentials \/ TokenClientCredentialsFails
    \/ CreateDeviceCode \/ CreateDeviceCodeFails
    \/ PollBegin \/ PollRequest \/ PollTransportError \/ PollCheck \/ PollSleep
    \/ GetFriendsSummary \/ GetFriendsSummaryFails
    \/ ResolveBatch \/ ResolveBatchFails \/ ResolveReturn
    \/ BuildRows
    \/ SelectBegin \/ KeyUp \/ KeyDown \/ KeyToggle \/ KeyEnter \/ KeyCancel
    \/ KeyInterrupt \/ KeyOther
    \/ AfterSelect
    \/ ConfirmRemoval
    \/ RemoveOne \/ RemoveDone
    \/ KillSession

Spec == Init /\ [][Next]_vars

\* exchange_device_code_for_user_token on its own, with a ceiling of
\* 0..MaxWaitSmall seconds or the default
MaxWaitChoices == (0..MaxWaitSmall) \cup {DEFAULT_MAX_WAIT}

InitPoll ==
    /\ InitCommon
    /\ pc = "poll_begin"
    /\ max_wait_seconds \in MaxWaitChoices
    /\ account_ids = <<>>

NextPoll == PollBegin \/ PollRequest \/ PollTransportError \/ PollCheck \/ PollSleep

\* The loop is one thread that always takes its next step: every request
\* returns or raises within its timeout.
SpecPoll == InitPoll /\ [][NextPoll]_vars /\ WF_vars(NextPoll)

\* resolve_display_names on its own, over k full batches and a remainder
MaxFullBatches == 2

Remainders == {0, 1, BATCH_SIZE \div 2, BATCH_SIZE - 1}

\* The i-th input id: two characters, every seventh id with a namespace "n:"
IdOf(i) ==
    LET id == <<97 + (i \div 10), 48 + (i % 10)>>
    IN  IF i % 7 = 0 THEN <<110, COLON>> \o id ELSE id

InitResolve ==
    /\ InitCommon
    /\ pc = "resolve"
    /\ max_wait_seconds = DEFAULT_MAX_WAIT
    /\ \E k \in 0..MaxFullBatches, r \in Remainders :
          account_ids = [i \in 1..(k * BATCH_SIZE + r) |-> IdOf(i)]

NextResolve == ResolveBatch \/ ResolveBatchFails \/ ResolveReturn

SpecResolve == InitResolve /\ [][NextResolve]_vars

\* run() from line 308 on, after a handshake and a fetch that gave more
\* friends than one batch holds: one or two full batches and one more id.
\* The user toggles the first row at most, then confirms or cancels.
RunListSizes == {BATCH_SIZE + 1, 2 * BATCH_SIZE + 1}

InitResolveRun ==
    /\ InitRest
    /\ pc = "resolve"
    /\ max_wait_seconds = DEFAULT_MAX_WAIT
    /\ poll_result = "authorized"
    /\ user_bearer = TRUE
    /\ \E n \in RunListSizes : friends = [i \in 1..n |-> IdOf(i)]
    /\ account_ids = AccountIdsOf(friends)
    /\ rows = <<>>
    /\ viewport_size = VIEWPORT_SIZE

NextResolveRun ==
    \/ ResolveBatch \/ ResolveBatchFails \/ ResolveReturn
    \/ BuildRows
    \/ SelectBegin \/ KeyToggle \/ KeyEnter \/ KeyCancel \/ KeyInterrupt
    \/ AfterSelect
    \/ ConfirmRemoval
    \/ RemoveOne \/ RemoveDone
    \/ KillSession

SpecResolveRun == InitResolveRun /\ [][NextResolveRun]_vars

\* EpicFriendsUI.select(rows, viewport_size) on its own: a sorted list of
\* 0..MaxRows rows, a viewport of 0..MaxViewport lines or of the 14 lines run()
\* asks for, and any sequence of keys that leaves at most MaxSelected rows
\* selected.
MaxRows == 16

MaxViewport == 3

MaxSelected == 2

ViewportSizes == (0..MaxViewport) \cup {VIEWPORT_SIZE}

RowOf(i) == [accountId |-> IdOf(i), displayName |-> DirectoryName(IdOf(i))]

InitSelect ==
    /\ InitRest
    /\ pc = "select_begin"
    /\ max_wait_seconds = DEFAULT_MAX_WAIT
    /\ poll_result = "none"
    /\ user_bearer = FALSE
    /\ friends = <<>>
    /\ account_ids = <<>>
    /\ \E n \in 0..MaxRows : rows = SortRows([i \in 1..n |-> RowOf(i)])
    /\ viewport_size \in ViewportSizes

\* lines 111-116, while no more than MaxSelected rows get selected
KeyToggleCapped == KeyToggle /\ Cardinality(selected_ids') <= MaxSelected

NextSelect ==
    \/ SelectBegin
    \/ KeyUp \/ KeyDown \/ KeyToggleCapped \/ KeyEnter \/ KeyCancel
    \/ KeyInterrupt \/ KeyOther

SpecSelect == InitSelect /\ [][NextSelect]_vars

-----------------------------------------------------------------------------
(* Claims about exchange_device_code_for_user_token *)

PollEnded == pc \notin {"poll_begin", "poll_request", "poll_check", "poll_sleep"}

\* C4: the polling loop always terminates, with the token payload or with an
\* error, whatever the remote answers.
C4_PollTerminates == <>PollEnded

\* C5: between any two consecutive token requests of one call the loop has
\* slept for the polling interval.
C5_NeverFasterThanInterval == ~unslept_repoll

\* C6: a retry is scheduled only while the elapsed time is under the ceiling;
\* when every answer was a transient rejection, the call fails with the HTTP
\* error no earlier than the ceiling and less than one sleep plus one request
\* after it.
C6_CeilingRespected ==
    /\ (pc = "poll_sleep" => now - start < max_wait_seconds)
    /\ (only_pending =>
            now - start < max_wait_seconds + POLL_INTERVAL + MaxReqDur)
    /\ (only_pending /\ pc = "done" /\ poll_result = "http_error" =>
            now - start >= max_wait_seconds)

\* C6 witness: the remote answered "pending" throughout, the loop retried
\* after sleeping, and the call failed at the ceiling.
C6_Witness ==
    /\ only_pending
    /\ resp.error = "authorization_pending"
    /\ max_wait_seconds = DEFAULT_MAX_WAIT
    /\ pc = "done"
    /\ poll_result = "http_error"
    /\ now - start > max_wait_seconds

-----------------------------------------------------------------------------
(* Claims about the bulk removal loop *)

FailedIds == {failures[i].id : i \in 1..Len(failures)}

Occurrences(seq, x) == Cardinality({i \in 1..Len(seq) : seq[i] = x})

FailureOccurrences(x) == Cardinality({i \in 1..Len(failures) : failures[i].id = x})

\* C1: when the removal loop is over, successes and failures together are as
\* long as the selection, and every selected id is in exactly one of them.
C1_EveryItemAccounted ==
    branch = "removed" =>
        /\ Len(successes) + Len(failures) = Len(selected)
        /\ \A i \in 1..Len(selected) :
              Occurrences(successes, selected[i]) + FailureOccurrences(selected[i]) = 1

\* C1 witness: a finished loop over two ids, one removed and one failed.
C1_Witness ==
    /\ branch = "removed"
    /\ Len(selected) = 2
    /\ Len(successes) = 1
    /\ Len(failures) = 1

\* C2: the loop calls remove_friend once for each selected id, in the order
\* of the selection, whatever the earlier outcomes were, and the progress
\* count grows by one with each item.
C2_EveryItemAttemptedInOrder ==
    /\ pc = "remove" =>
          /\ removed = SubSeq(selected, 1, item_i)
          /\ progress = Len(removed)
          /\ Len(answers) = Len(removed)
    /\ branch = "removed" =>
          /\ removed = selected
          /\ progress = Len(selected)

\* C2 witness: the first item failed and the second was attempted all the same.
C2_Witness ==
    /\ branch = "removed"
    /\ Len(removed) = 2
    /\ Outcome(answers[1]) # "ok"

\* C3: whichever way run() ends, kill_session was called exactly once.
C3_TeardownExactlyOnce == pc = "done" => kill_count = 1

\* C7: remove_friend is called only in a run with friends, a selection that
\* is not empty and an accepted confirmation; a run with no friends, with a
\* selector ended by the cancel key, by the interrupt key or by Confirm with
\* nothing selected, or with a declined confirmation goes to teardown with no
\* removal.
C7_NoRemovalWithoutSelection ==
    /\ (pc = "remove" \/ removed # <<>>) =>
          /\ friends # <<>>
          /\ selected # <<>>
          /\ confirmed
    /\ branch \in {"no_friends", "no_selection", "declined", "interrupted"} =>
          /\ removed = <<>>
          /\ pc \in {"kill", "done"}
          /\ pc = "done" => kill_count = 1

\* C8: an id whose remove request was answered with a success-equivalent
\* status (the answer given for a friend already absent) is in successes and
\* not in failures.
C8_AlreadyAbsentIsSuccess ==
    \A i \in 1..Len(answers) :
        (answers[i].kind = "status" /\ answers[i].status \in SUCCESS_STATUS) =>
            /\ Occurrences(successes, removed[i]) = 1
            /\ removed[i] \notin FailedIds

\* C8 witness: two remove requests answered 204, both recorded as successes.
C8_Witness ==
    /\ branch = "removed"
    /\ Len(answers) = 2
    /\ answers[1].status = 204
    /\ answers[2].status = 204
    /\ Len(successes) = 2
    /\ failures = <<>>

-----------------------------------------------------------------------------
(* Claims about the display names *)

HasNamespace(raw) == \E i \in 1..Len(raw) : raw[i] = COLON

\* C9: a friend whose raw id has a namespace and whose canonical id was
\* resolved to a name is shown under that name.
C9_NamespacedRowCarriesName ==
    \A i \in 1..Len(rows) :
        LET raw == rows[i].accountId
            canonical == _normalize_account_id(raw)
        IN  (HasNamespace(raw) /\ canonical \in DOMAIN out /\ out[canonical] # UNKNOWN)
                => rows[i].displayName = out[canonical]

RECURSIVE Flatten(_)
Flatten(seqs) == IF seqs = <<>> THEN <<>> ELSE Head(seqs) \o Flatten(Tail(seqs))

\* C10: n ids are resolved with ceil(n / 100) requests of at most 100 ids,
\* consecutive slices of the input that together are the input; the mapping
\* has an entry exactly for the non-empty ids of the answers.
C10_BatchesCoverInput ==
    /\ batch_no = Len(requested)
    /\ \A b \in 1..Len(requested) : Len(requested[b]) \in 1..BATCH_SIZE
    /\ Flatten(requested) = SubSeq(account_ids, 1, Len(Flatten(requested)))
    /\ DOMAIN out = answered_ids
    /\ pc = "build_rows" =>
          /\ Len(requested) = (Len(account_ids) + BATCH_SIZE - 1) \div BATCH_SIZE
          /\ Flatten(requested) = account_ids

-----------------------------------------------------------------------------
(* Claims about a failed resolution *)

\* C11: when the request of a batch fails, run() ends with the error there:
\* no later batch is requested, no mapping comes back, no rows are built, the
\* selector is not shown and remove_friend is not called.
C11_BatchFailureAborts ==
    branch = "resolve_failed" =>
        /\ pc = "done"
        /\ result = "raised"
        /\ Len(requested) = batch_no
        /\ rows = <<>>
        /\ viewport = NoView
        /\ selected = <<>>
        /\ removed = <<>>

\* C11 witness: the first batch was answered, the second failed, and a third
\* batch of the input was never requested.
C11_Witness ==
    /\ branch = "resolve_failed"
    /\ Len(requested) = 2
    /\ out # EmptyMap
    /\ Len(Batches) > 2

\* The rows of the list a render shows, start..end-1, are a window of
\* min(N, viewport_size) rows inside the list with the cursor in it.
ViewportHolds ==
    /\ viewport.start >= 0
    /\ viewport.end <= Len(rows)
    /\ viewport.end - viewport.start = Min(Len(rows), viewport_size)
    /\ viewport.start <= cursor_index
    /\ cursor_index < viewport.end

\* C12 as stated: for any list length N, any viewport_size and any cursor in
\* 0..N-1, the start and end _render_table computes satisfy start >= 0,
\* end <= N, end - start = min(N, viewport_size) and start <= cursor < end.
C12_ViewportAnySize == pc = "select" => ViewportHolds

\* C12 amended: the same for any viewport_size of at least 1 (with no line to
\* show, no window of min(N, 0) = 0 rows can hold the cursor).
C12_ViewportPositiveSize ==
    (pc = "select" /\ viewport_size >= 1) => ViewportHolds

\* The cursor on the last row of a list longer than the 14 lines of the
\* viewport: the window has scrolled and ends with the list.
C12_Witness ==
    /\ pc = "select"
    /\ viewport_size = VIEWPORT_SIZE
    /\ Len(rows) > viewport_size
    /\ cursor_index = Len(rows) - 1
    /\ viewport.start > 0
    /\ viewport.end = Len(rows)

\* The accountId of the row under the cursor
UnderCursor == rows[cursor_index + 1].accountId

\* C13: a toggle changes the membership of the accountId under the cursor and
\* of no other accountId, and a second toggle with the cursor left where it is
\* gives back the set selected before the first.
C13_ToggleIsInvolution ==
    [][KeyToggle =>
          /\ (UnderCursor \in selected_ids') # (UnderCursor \in selected_ids)
          /\ selected_ids' \ {UnderCursor} = selected_ids \ {UnderCursor}
          /\ Toggle(selected_ids', UnderCursor) = selected_ids]_vars

\* The row under the cursor has been toggled in while another row is selected.
C13_Witness ==
    /\ pc = "select"
    /\ UnderCursor \in selected_ids
    /\ selected_ids # {UnderCursor}

\* C14: over a list of N >= 1 rows MoveDown sets the cursor to
\* (cursor + 1) mod N and MoveUp to (cursor - 1) mod N, from the first row
\* MoveUp lands on the last and from the last MoveDown lands on the first,
\* MoveUp after MoveDown gives the cursor back; over an empty list select()
\* returns an empty result and never waits for a key.
C14_CursorWraps ==
    /\ [](rows = <<>> => /\ pc # "select"
                         /\ selected = <<>>
                         /\ cursor_index = 0
                         /\ viewport = NoView)
    /\ [][/\ KeyDown =>
                /\ cursor_index' = (cursor_index + 1) % Len(rows)
                /\ cursor_index = Len(rows) - 1 => cursor_index' = 0
                /\ MoveUp(cursor_index', Len(rows)) = cursor_index
          /\ KeyUp =>
                /\ cursor_index' = (cursor_index - 1) % Len(rows)
                /\ cursor_index = 0 => cursor_index' = Len(rows) - 1
                /\ MoveDown(cursor_index', Len(rows)) = cursor_index]_vars

\* The cursor on the last of several rows, where MoveDown wraps and where
\* MoveUp from the first row lands.
C14_Witness ==
    /\ pc = "select"
    /\ Len(rows) >= 2
    /\ cursor_index = Len(rows) - 1

RowIds == {rows[i].accountId : i \in 1..Len(rows)}

\* C15: in the loop over a non-empty list the cursor is an index of the list
\* and the selected ids are accountIds of its rows, after any keys; the
\* sequence Confirm returns holds exactly the selected ids, each once.
C15_SelectorStateInRange ==
    /\ [](pc = "select" => /\ rows # <<>>
                           /\ cursor_index \in 0..(Len(rows) - 1)
                           /\ selected_ids \subseteq RowIds)
    /\ [][KeyEnter =>
             /\ {selected'[i] : i \in 1..Len(selected')} = selected_ids
             /\ Len(selected') = Cardinality(selected_ids)]_vars

\* Confirm has returned two selected ids or more.
C15_Witness ==
    /\ pc = "after_select"
    /\ Len(selected) >= 2
    /\ cursor_index > 0

\* C20: MoveUp and MoveDown leave the selected ids as they are, a toggle
\* leaves the cursor where it is, a key bound to nothing leaves both, and no
\* step of the selector changes the list.
C20_SelectorFrame ==
    [][/\ (KeyUp \/ KeyDown) => selected_ids' = selected_ids
       /\ KeyToggle => cursor_index' = cursor_index
       /\ KeyOther => /\ cursor_index' = cursor_index
                      /\ selected_ids' = selected_ids
       /\ pc = "select" =>
             /\ rows' = rows
             /\ cursor_index' = cursor_index \/ selected_ids' = selected_ids]_vars

\* The cursor has moved and a row is selected.
C20_Witness ==
    /\ pc = "select"
    /\ cursor_index > 0
    /\ selected_ids # {}
    /\ UnderCursor \notin selected_ids

\* C16: a failure of the teardown request, a rejection or a transport error,
\* is swallowed: once kill_session has been called run() ends without an
\* error.
C16_TeardownFailureSwallowed ==
    (pc = "done" /\ kill_count > 0) => result = "returned"

PostHandshakePcs ==
    {"get_friends", "resolve", "build_rows", "select_begin", "select",
     "after_select", "confirm", "remove", "kill"}

SelectorPcs == {"select_begin", "select", "after_select", "confirm", "remove"}

\* C17: nothing is fetched, resolved, shown or removed before the handshake
\* is authorized, a failed handshake ends the run with none of them done, and
\* the selector starts only when every batch has been requested and answered.
C17_OrchestratorOrder ==
    /\ (\/ pc \in PostHandshakePcs
        \/ friends # <<>>
        \/ requested # <<>>
        \/ rows # <<>>
        \/ viewport # NoView
        \/ removed # <<>>) => poll_result = "authorized"
    /\ poll_result = "http_error" => pc = "done" /\ kill_count = 0
    /\ (pc \in SelectorPcs \/ rows # <<>> \/ viewport # NoView) =>
          /\ batch_no = Len(Batches)
          /\ Len(requested) = Len(Batches)
          /\ branch # "resolve_failed"

\* The selector is shown for two friends after a handshake and a resolution.
C17_Witness ==
    /\ pc = "select"
    /\ poll_result = "authorized"
    /\ Len(friends) >= 2
    /\ Len(requested) >= 1

FriendIds == {friends[i] : i \in 1..Len(friends)}

\* C18: every id remove_friend is called with is the accountId of a fetched
\* friend and of a row, was toggled an odd number of times and so was
\* selected when Confirm was pressed, and the call comes after the prompt was
\* accepted; a friend not selected at Confirm is never removed.
C18_OnlySelectedRemoved ==
    \A i \in 1..Len(removed) :
        /\ removed[i] \in FriendIds
        /\ removed[i] \in {rows[j].accountId : j \in 1..Len(rows)}
        /\ removed[i] \in toggled_odd
        /\ removed[i] \in selected_ids
        /\ \E j \in 1..Len(selected) : selected[j] = removed[i]
        /\ confirmed

\* A run has removed a friend and left another one, never selected, alone.
C18_Witness ==
    /\ pc = "done"
    /\ removed # <<>>
    /\ \E f \in FriendIds : f \notin selected_ids /\ f \notin FailedIds
    /\ \A i \in 1..Len(removed) : removed[i] \in selected_ids

\* C19: an id is in successes only when its request was answered 200, 202 or
\* 204; after every other answer, another status or a transport error, the id
\* is in failures.
C19_SuccessOnlyOnSuccessStatus ==
    \A i \in 1..Len(answers) :
        IF answers[i].kind = "status" /\ answers[i].status \in SUCCESS_STATUS
          THEN removed[i] \notin FailedIds
          ELSE /\ \A j \in 1..Len(successes) : successes[j] # removed[i]
               /\ removed[i] \in FailedIds

=============================================================================
